---- MODULE Spec2Model ----
(***************************************************************************)
(* Rewind extension (src/index.ts): git-ref based worktree checkpoints.    *)
(*                                                                         *)
(* The ref store refs/pi-checkpoints/ and the worktree belong to the       *)
(* repository and are shared by every pi session running in it; each       *)
(* session owns the closure state of one extension instance (checkpoints,  *)
(* resumeCheckpoint, isGitRepo, pendingCheckpoint). Handlers of one        *)
(* session run one at a time; every await on a git command is a step at    *)
(* which another session may run.                                          *)
(***************************************************************************)
EXTENDS Integers, Sequences, FiniteSets, TLC

VARIABLES
  store,              \* refs under refs/pi-checkpoints/, in for-each-ref --sort=creatordate order
  worktree,           \* file -> content of the working directory
  now,                \* wall clock in ms (Date.now(), event.timestamp)
  faults,             \* number of git commands that have failed so far
  calls,              \* number of handlers the host has invoked so far
  edits,              \* number of file changes made so far
  checkpoints,        \* per session: Map<sanitized entry id, checkpointId>
  resumeCheckpoint,   \* per session: checkpointId of the resume checkpoint, or NoName
  isGitRepo,          \* per session
  pendingCheckpoint,  \* per session: {commitSha, timestamp} or NoPending
  pc,                 \* per session: position inside the running handler
  existingBackup,     \* per session: restoreWithBackup's local existingBackup
  targetRef,          \* per session: restoreWithBackup's argument
  toDelete,           \* per session: pruneCheckpoints' remaining toDelete list
  rwbResult,          \* per session: value returned by the last restoreWithBackup
  backupCommit,       \* per session: restoreWithBackup's local backupCommit (the snapshot)
  overwritten,        \* per session: the running restoreWithBackup has run its checkout
  pruneLog,           \* per session: what the running prune pass saw and deleted
  rewound,            \* the last file restore that nothing has followed but its undo
  menu,               \* per session: what the restore handler looked up for its menu
  started,            \* per session: the host has delivered session_start
  notices,            \* per session: what the running handler has told the user and the host
  gitIndex,           \* the repository's active index (.git/index)
  tmpDirs,            \* the pi-rewind-* directories under os.tmpdir(), each with its index file
  tmpDir              \* per session: captureWorktree's local tmpDir (0: no call is running)

vars == <<store, worktree, now, faults, calls, edits, checkpoints, resumeCheckpoint, isGitRepo,
          pendingCheckpoint, pc, existingBackup, targetRef, toDelete, rwbResult,
          backupCommit, overwritten, pruneLog, rewound, menu, started, tmpDirs, tmpDir,
          notices, gitIndex>>

----------------------------------------------------------------------------
(* Program constants and model bounds *)

MAX_CHECKPOINTS == 100

Sessions == {"A", "B"}

\* number of handler invocations (events delivered by the hosts) in one behaviour
MaxCalls == 4

\* number of file changes by the user or a tool in one behaviour
MaxEdits == 1

\* number of git commands that fail in one behaviour
MaxFaults == 1

\* the files of the working directory and what each may hold
Files == {"f", "g"}
Absent == "absent"
FileContents(f) == IF f = "f" THEN {"x", "y"} ELSE {Absent, "x"}

\* characters of entry ids; the first four are in [a-zA-Z0-9-]
SafeChars == {"a", "b", "1", "-"}
RawIds == {<<"a">>, <<"b">>}

\* entry ids of restore requests (event.entryId, event.preparation.targetId)
RequestIds == RawIds

----------------------------------------------------------------------------
(* Ref names *)

\* sanitizeForRef: id.replace(/[^a-zA-Z0-9-]/g, "_")
sanitizeForRef(id) ==
  [i \in 1..Len(id) |-> IF id[i] \in SafeChars THEN id[i] ELSE "_"]

\* A checkpoint id is kept as the fields its text is built from:
\*   checkpoint-{ts}-{entry}, checkpoint-resume-{ts}, before-restore-{ts}
NoName == [kind |-> "none", ts |-> 0, entry |-> <<>>]
TurnName(ts, entry) == [kind |-> "checkpoint", ts |-> ts, entry |-> entry]
ResumeName(ts) == [kind |-> "checkpoint-resume", ts |-> ts, entry |-> <<>>]
BackupName(ts) == [kind |-> "before-restore", ts |-> ts, entry |-> <<>>]
\* a name under the prefix that starts with "checkpoint-" and that the pattern
\* /^checkpoint-(\d+)-(.+)$/ does not match, such as "checkpoint-7-"
UnparsedName(ts) == [kind |-> "checkpoint", ts |-> ts, entry |-> <<>>]

\* whether the text of a checkpoint id has a session id among its fields
NameHasSessionId(name) == "sessionId" \in DOMAIN name

\* checkpointId.match(/^checkpoint-(\d+)-(.+)$/) after the two startsWith tests:
\* the digits are the timestamp, the rest (at least one character) the entry id
\* the test without the skip of the names that start with "checkpoint-resume-"
MatchesTurnOrResume(name) == name.kind \in {"checkpoint", "checkpoint-resume"}
MatchesTurn(name) == name.kind = "checkpoint" /\ name.entry # <<>>
MatchEntry(name) == name.entry

\* refs.filter(r => !r.includes("before-restore-") && !r.includes("checkpoint-resume-"))
\* the filter without its two exclusions
IsPrunableUnfiltered(name) == TRUE
IsPrunable(name) == name.kind = "checkpoint"

CharRank(c) ==
  CASE c = "-" -> 45 [] c = "." -> 46 [] c = "1" -> 49
    [] c = "_" -> 95 [] c = "a" -> 97 [] c = "b" -> 98 [] OTHER -> 0

RECURSIVE SeqLess(_, _)
SeqLess(a, b) ==
  IF a = <<>> THEN b # <<>>
  ELSE IF b = <<>> THEN FALSE
  ELSE IF CharRank(Head(a)) # CharRank(Head(b)) THEN CharRank(Head(a)) < CharRank(Head(b))
  ELSE SeqLess(Tail(a), Tail(b))

KindRank(k) == CASE k = "before-restore" -> 1 [] k = "checkpoint" -> 2 [] OTHER -> 3

\* order of for-each-ref --sort=creatordate: date of the commit, then the ref name
NameLess(n, m) ==
  \/ n.ts < m.ts
  \/ n.ts = m.ts /\ KindRank(n.kind) < KindRank(m.kind)
  \/ n.ts = m.ts /\ n.kind = m.kind /\ SeqLess(n.entry, m.entry)

----------------------------------------------------------------------------
(* The ref store: git update-ref / for-each-ref *)

Names(st) == {st[i].name : i \in 1..Len(st)}

HasRef(st, name) == name \in Names(st)

RefOf(st, name) == st[CHOOSE i \in 1..Len(st) : st[i].name = name]

\* git update-ref -d <ref>
DeleteRef(st, name) == SelectSeq(st, LAMBDA r : r.name # name)

\* git update-ref <ref> <commit>: creates the ref or moves it
UpdateRef(st, name, tree, by) ==
  LET rest == DeleteRef(st, name)
      before == SelectSeq(rest, LAMBDA r : NameLess(r.name, name))
      after == SelectSeq(rest, LAMBDA r : ~NameLess(r.name, name))
  IN before \o <<[name |-> name, tree |-> tree, by |-> by]>> \o after

\* git for-each-ref --sort=creatordate --format=%(refname) refs/pi-checkpoints/
ForEachRef(st) == [i \in 1..Len(st) |-> st[i].name]

TurnRefs(st) == SelectSeq(ForEachRef(st), IsPrunable)

\* the filter letting resume refs through as well
BackupRefsOrResume(st) == SelectSeq(st, LAMBDA r : r.name.kind # "checkpoint")
BackupRefs(st) == SelectSeq(st, LAMBDA r : r.name.kind = "before-restore")

----------------------------------------------------------------------------
(* Outcomes of the git commands *)

\* pi.exec (ExecFn) resolves with {stdout, stderr, code}: the command did its work
\* ("ok"), or exited non-zero having done nothing ("fail"), or the promise rejects
\* ("throw"). The code never reads code.
ExecOutcomes == {"ok", "fail", "throw"}

\* captureWorktree runs git through execAsync, which rejects on a non-zero exit
CaptureOutcomes == {"ok", "throw"}

\* the before-restore refs that session s wrote
OwnBackups(st, s) == SelectSeq(st, LAMBDA r : r.name.kind = "before-restore" /\ r.by = s)

----------------------------------------------------------------------------
(* The checkpoint map *)

EmptyMap == [k \in {} |-> NoName]

MapHas(m, k) == k \in DOMAIN m
MapGet(m, k) == IF k \in DOMAIN m THEN m[k] ELSE NoName
MapSet(m, k, v) == [x \in (DOMAIN m) \cup {k} |-> IF x = k THEN v ELSE m[x]]
MapDelete(m, k) == [x \in (DOMAIN m) \ {k} |-> m[x]]

\* the loop of rebuildCheckpointsMap with the eviction test of pruneCheckpoints
\* pasted into it: an id already mapped to the listed ref is deleted, not set
RebuildLoopEvicting(m, refs) ==
  LET matching == SelectSeq(refs, MatchesTurn)
      keys == {MatchEntry(matching[i]) : i \in 1..Len(matching)}
      setFor(k) == SelectSeq(matching, LAMBDA r : MatchEntry(r) = k)
      evicted == {k \in keys \cap DOMAIN m : Len(setFor(k)) = 1 /\ m[k] = setFor(k)[1]}
  IN [k \in ((DOMAIN m) \cup keys) \ evicted |->
        IF k \in keys THEN setFor(k)[Len(setFor(k))] ELSE m[k]]

\* the loop with a map that keeps the first ref set for an entry id
RebuildLoopFirstWins(m, refs) ==
  LET matching == SelectSeq(refs, MatchesTurn)
      keys == {MatchEntry(matching[i]) : i \in 1..Len(matching)}
      setFor(k) == SelectSeq(matching, LAMBDA r : MatchEntry(r) = k)
  IN [k \in (DOMAIN m) \cup keys |->
        IF k \in keys THEN setFor(k)[1] ELSE m[k]]

\* the loop of rebuildCheckpointsMap over the listed refs: every ref that matches
\* is set under its entry id in listing order, so the last one listed stays
RebuildLoop(m, refs) ==
  LET matching == SelectSeq(refs, MatchesTurn)
      keys == {MatchEntry(matching[i]) : i \in 1..Len(matching)}
      setFor(k) == SelectSeq(matching, LAMBDA r : MatchEntry(r) = k)
  IN [k \in (DOMAIN m) \cup keys |->
        IF k \in keys THEN setFor(k)[Len(setFor(k))] ELSE m[k]]

\* rebuildCheckpointsMap(exec): the listing may fail, and then nothing is set
rebuildCheckpointsMap(m, st, outcome) ==
  IF outcome = "ok" THEN RebuildLoop(m, ForEachRef(st)) ELSE m

\* findBeforeRestoreRef: --sort=-creatordate --count=1 over before-restore-*
NoBackup == [name |-> NoName, tree |-> [f \in Files |-> Absent]]
findBeforeRestoreRef(st, outcome) ==
  LET b == BackupRefs(st)
  IN IF outcome = "ok" /\ b # <<>>
     THEN [name |-> b[Len(b)].name, tree |-> b[Len(b)].tree]
     ELSE NoBackup

\* git checkout <target> -- . : every file of the target is written over the
\* worktree; a file the target does not have is left as it is
Checkout(wt, tree) == [f \in Files |-> IF tree[f] # Absent THEN tree[f] ELSE wt[f]]

----------------------------------------------------------------------------
(* Initial state: two extension instances just constructed, in a repository *)
(* whose ref store already holds MAX_CHECKPOINTS turn checkpoints: the      *)
(* oldest written by an earlier run of session B, the next by session A,    *)
(* the others by sessions that are gone ("legacy"). Each ref carries, in    *)
(* by, the session that wrote it; the code has no such field.               *)

NoPending == [set |-> FALSE, commitSha |-> [f \in Files |-> Absent], timestamp |-> 0]
NoTarget == [isSha |-> FALSE, name |-> NoName, tree |-> [f \in Files |-> Absent]]
NoPrune == [status |-> "none", own |-> 0, victims |-> {}]
NoTree == [f \in Files |-> Absent]
NoRewind == [phase |-> "none", by |-> "none", tree |-> NoTree]
NoMenu == [handler |-> "none", entry |-> <<>>, checkpointId |-> NoName,
           usingResumeCheckpoint |-> FALSE, beforeRestoreRef |-> NoBackup, option |-> "none"]

OldEntry(i) == IF i = 1 THEN <<"a">> ELSE IF i = 2 THEN <<"b">> ELSE <<"1">>
OldTree(i) == [f \in Files |-> "x"]
OldStore ==
  [i \in 1..MAX_CHECKPOINTS |->
     [name |-> TurnName(i, OldEntry(i)), tree |-> OldTree(i),
      by |-> IF i = 1 THEN "B" ELSE IF i = 2 THEN "A" ELSE "legacy"]]

Init ==
  /\ store = OldStore
  /\ worktree = [f \in Files |-> IF f = "f" THEN "x" ELSE Absent]
  /\ now = MAX_CHECKPOINTS
  /\ faults = 0
  /\ calls = 0
  /\ edits = 0
  /\ checkpoints = [s \in Sessions |-> EmptyMap]
  /\ resumeCheckpoint = [s \in Sessions |-> NoName]
  /\ isGitRepo = [s \in Sessions |-> FALSE]
  /\ pendingCheckpoint = [s \in Sessions |-> NoPending]
  /\ pc = [s \in Sessions |-> "idle"]
  /\ existingBackup = [s \in Sessions |-> NoBackup]
  /\ targetRef = [s \in Sessions |-> NoTarget]
  /\ toDelete = [s \in Sessions |-> <<>>]
  /\ rwbResult = [s \in Sessions |-> "none"]
  /\ backupCommit = [s \in Sessions |-> NoTree]
  /\ overwritten = [s \in Sessions |-> FALSE]
  /\ pruneLog = [s \in Sessions |-> NoPrune]
  /\ rewound = NoRewind
  /\ menu = [s \in Sessions |-> NoMenu]
  /\ started = [s \in Sessions |-> FALSE]
  /\ notices = [s \in Sessions |-> {}]
  /\ gitIndex = [f \in Files |-> IF f = "f" THEN "x" ELSE Absent]
  /\ tmpDirs = {}
  /\ tmpDir = [s \in Sessions |-> 0]

\* Date.now() / event.timestamp: every reading follows at least one git command or
\* host event, and is later than the reading before it
ClockReads == {now + 1}

\* the host delivers one more event
Called ==
  /\ calls < MaxCalls
  /\ calls' = calls + 1

\* the commands of one step that fail, within the budget of the behaviour
Failed(outcomes) == Cardinality({i \in DOMAIN outcomes : outcomes[i] # "ok"})
Faults(outcomes) ==
  /\ faults + Failed(outcomes) <= MaxFaults
  /\ faults' = faults + Failed(outcomes)

\* the active index after captureWorktree: git add -A and git write-tree run with
\* GIT_INDEX_FILE set to the temporary index, git commit-tree reads no index
IndexAfterCaptureNoEnv(ix, wt) == wt

IndexAfterCapture(ix, wt) == ix

\* what the catch block of turn_end tells the user and the host: nothing
TurnEndCatchNotifying == {"error"}

TurnEndCatch == {}

rwbVars == <<existingBackup, targetRef, rwbResult, backupCommit, overwritten, menu>>
pruneVars == <<toDelete, pruneLog>>
EditableFiles == {"f"}

----------------------------------------------------------------------------
(* The user or an agent tool changes a file *)

Edit(f, c) ==
  /\ worktree[f] # c
  /\ rewound' = NoRewind
  /\ edits < MaxEdits
  /\ edits' = edits + 1
  /\ worktree' = [worktree EXCEPT ![f] = c]
  /\ UNCHANGED <<store, now, faults, calls, checkpoints, resumeCheckpoint, isGitRepo, started, tmpDirs, tmpDir, notices, gitIndex,
                 pendingCheckpoint, pc, rwbVars, pruneVars>>

----------------------------------------------------------------------------
(* session_start / session_switch: initializeForSession *)

\* resetState: the closure state of a fresh session; p is the pending capture
\* the previous session left
resetStateKeepingPending(p) ==
  [checkpoints |-> EmptyMap, resumeCheckpoint |-> NoName, isGitRepo |-> FALSE,
   pendingCheckpoint |-> p]

resetState(p) ==
  [checkpoints |-> EmptyMap, resumeCheckpoint |-> NoName, isGitRepo |-> FALSE,
   pendingCheckpoint |-> NoPending]

\* revParse: the outcome of git rev-parse --is-inside-work-tree ("ok": stdout true)
\* list: of for-each-ref in rebuildCheckpointsMap; capture, write: of
\* createCheckpointFromWorktree's captureWorktree and update-ref
initializeForSession(s, revParse, list, capture, write) ==
  /\ pc[s] = "idle"
  /\ rewound' = NoRewind
  /\ Called
  /\ UNCHANGED edits
  /\ LET fresh == resetState(pendingCheckpoint[s])
     IN /\ pendingCheckpoint' = [pendingCheckpoint EXCEPT ![s] = fresh.pendingCheckpoint]
        /\ isGitRepo' = [isGitRepo EXCEPT ![s] = (revParse = "ok")]
        /\ IF revParse # "ok"
           THEN /\ Faults(<<revParse>>)
                /\ checkpoints' = [checkpoints EXCEPT ![s] = fresh.checkpoints]
                /\ resumeCheckpoint' = [resumeCheckpoint EXCEPT ![s] = fresh.resumeCheckpoint]
                /\ UNCHANGED <<store, now>>
           ELSE \E t \in ClockReads :
                LET checkpointId == ResumeName(t)
                    success == capture = "ok" /\ write # "throw"
                IN /\ Faults(IF capture = "ok" THEN <<list, write>> ELSE <<list, capture>>)
                   /\ checkpoints' =
                        [checkpoints EXCEPT ![s] =
                           rebuildCheckpointsMap(fresh.checkpoints, store, list)]
                   /\ store' = IF capture = "ok" /\ write = "ok"
                               THEN UpdateRef(store, checkpointId, worktree, s)
                               ELSE store
                   /\ resumeCheckpoint' =
                        [resumeCheckpoint EXCEPT ![s] =
                           IF success THEN checkpointId ELSE fresh.resumeCheckpoint]
                   /\ now' = t
  /\ started' = [started EXCEPT ![s] = TRUE]
  /\ UNCHANGED <<tmpDirs, tmpDir>>
  /\ pc' = [pc EXCEPT ![s] = "init_return"]
  /\ gitIndex' = IF revParse = "ok" THEN IndexAfterCapture(gitIndex, worktree) ELSE gitIndex
  /\ UNCHANGED <<worktree, rwbVars, pruneVars, notices>>

\* the end of initializeForSession (setStatus / updateStatus) and of the handler
InitReturn(s) ==
  /\ pc[s] = "init_return"
  /\ pc' = [pc EXCEPT ![s] = "idle"]
  /\ UNCHANGED <<store, worktree, now, faults, calls, edits, checkpoints, resumeCheckpoint,
                 isGitRepo, started, tmpDirs, tmpDir, notices, gitIndex, pendingCheckpoint, rwbVars, pruneVars, rewound>>

----------------------------------------------------------------------------
(* turn_start *)

\* turn_start creating the ref of the capture at once, under a placeholder id
turn_start_writing_ref(s, turnIndex, capture) ==
  /\ pc[s] = "idle"
  /\ rewound' = NoRewind
  /\ Called
  /\ UNCHANGED edits
  /\ isGitRepo[s]
  /\ turnIndex = 0
  /\ Faults(<<capture>>)
  /\ gitIndex' = IndexAfterCapture(gitIndex, worktree)
  /\ \E t \in ClockReads :
       /\ pendingCheckpoint' =
            [pendingCheckpoint EXCEPT ![s] =
               IF capture = "ok"
               THEN [set |-> TRUE, commitSha |-> worktree, timestamp |-> t]
               ELSE NoPending]
       /\ store' = IF capture = "ok"
                   THEN UpdateRef(store, TurnName(t, <<"1">>), worktree, s) ELSE store
       /\ now' = t
  /\ UNCHANGED <<worktree, checkpoints, resumeCheckpoint, isGitRepo, started, tmpDirs, tmpDir, notices, pc,
                 rwbVars, pruneVars>>

turn_start(s, turnIndex, capture) ==
  /\ pc[s] = "idle"
  /\ rewound' = NoRewind
  /\ Called
  /\ UNCHANGED edits
  /\ isGitRepo[s]
  /\ turnIndex = 0
  /\ Faults(<<capture>>)
  /\ gitIndex' = IndexAfterCapture(gitIndex, worktree)
  /\ \E t \in ClockReads :
       /\ pendingCheckpoint' =
            [pendingCheckpoint EXCEPT ![s] =
               IF capture = "ok"
               THEN [set |-> TRUE, commitSha |-> worktree, timestamp |-> t]
               ELSE NoPending]
       /\ now' = t
  /\ UNCHANGED <<store, worktree, checkpoints, resumeCheckpoint, isGitRepo, started, tmpDirs, tmpDir, notices, pc,
                 rwbVars, pruneVars>>

\* a turn_start event without the test of turnIndex: it captures on every turn
turn_start_ignored_capturing(s, turnIndex) ==
  /\ pc[s] = "idle"
  /\ Called
  /\ ~isGitRepo[s] \/ turnIndex # 0
  /\ pendingCheckpoint' =
       [pendingCheckpoint EXCEPT ![s] =
          IF isGitRepo[s]
          THEN [set |-> TRUE, commitSha |-> worktree, timestamp |-> now]
          ELSE @]
  /\ pc' = [pc EXCEPT ![s] = "turn_start_ignored"]
  /\ UNCHANGED <<store, worktree, now, faults, edits, checkpoints, resumeCheckpoint, isGitRepo,
                 started, tmpDirs, tmpDir, notices, gitIndex, rwbVars, pruneVars, rewound>>

\* a turn_start event that returns at one of its checks: not a repository, or not
\* the first turn of the agent loop
turn_start_ignored(s, turnIndex) ==
  /\ pc[s] = "idle"
  /\ Called
  /\ ~isGitRepo[s] \/ turnIndex # 0
  /\ pc' = [pc EXCEPT ![s] = "turn_start_ignored"]
  /\ UNCHANGED <<store, worktree, now, faults, edits, checkpoints, resumeCheckpoint, isGitRepo,
                 started, tmpDirs, tmpDir, notices, gitIndex, pendingCheckpoint, rwbVars, pruneVars, rewound>>

TurnStartIgnoredReturn(s) ==
  /\ pc[s] = "turn_start_ignored"
  /\ pc' = [pc EXCEPT ![s] = "idle"]
  /\ UNCHANGED <<store, worktree, now, faults, calls, edits, checkpoints, resumeCheckpoint,
                 isGitRepo, started, tmpDirs, tmpDir, notices, gitIndex, pendingCheckpoint, rwbVars, pruneVars,
                 rewound>>

----------------------------------------------------------------------------
(* turn_end, with pruneCheckpoints *)

\* the commit the turn checkpoint ref is pointed at: the capture of turn_start
CheckpointTargetAtTurnEnd(pending, wt) == wt

CheckpointTarget(pending, wt) == pending.commitSha

\* userEntry: what findUserMessageEntry returns (<<>>: null); write: of update-ref
turn_end(s, turnIndex, userEntry, write) ==
  /\ pc[s] = "idle"
  /\ rewound' = NoRewind
  /\ Called
  /\ UNCHANGED edits
  /\ isGitRepo[s]
  /\ pendingCheckpoint[s].set
  /\ turnIndex = 0
  /\ pruneLog' = [pruneLog EXCEPT ![s] = NoPrune]
  /\ IF userEntry = <<>>
     THEN /\ pc' = [pc EXCEPT ![s] = "turn_end_return"]
          /\ UNCHANGED <<store, checkpoints, faults, notices>>
     ELSE LET sanitizedEntryId == sanitizeForRef(userEntry)
              checkpointId == TurnName(pendingCheckpoint[s].timestamp, sanitizedEntryId)
          IN /\ Faults(<<write>>)
             /\ store' = IF write = "ok"
                         THEN UpdateRef(store, checkpointId,
                                        CheckpointTarget(pendingCheckpoint[s], worktree), s)
                         ELSE store
             /\ checkpoints' =
                  [checkpoints EXCEPT ![s] =
                     IF write = "throw" THEN @ ELSE MapSet(@, sanitizedEntryId, checkpointId)]
             /\ pc' = [pc EXCEPT ![s] = IF write = "throw" THEN "turn_end_return" ELSE "prune_list"]
             /\ notices' = [notices EXCEPT ![s] = IF write = "throw" THEN TurnEndCatch ELSE @]
  /\ UNCHANGED <<worktree, now, resumeCheckpoint, isGitRepo, started, tmpDirs, tmpDir, gitIndex, pendingCheckpoint, rwbVars,
                 toDelete>>

OwnTurnRefs(st, s) == SelectSeq(st, LAMBDA r : IsPrunable(r.name) /\ r.by = s)

\* pruneCheckpoints up to the loop: list, filter, slice
PruneList(s, list) ==
  /\ pc[s] = "prune_list"
  /\ UNCHANGED rewound
  /\ UNCHANGED <<calls, edits>>
  /\ Faults(<<list>>)
  /\ LET checkpointRefs == IF list = "ok" THEN TurnRefs(store) ELSE <<>>
         n == Len(checkpointRefs)
         own == Len(OwnTurnRefs(store, s))
     IN IF n > MAX_CHECKPOINTS
        THEN /\ toDelete' = [toDelete EXCEPT ![s] = SubSeq(checkpointRefs, 1, n - MAX_CHECKPOINTS)]
             /\ pruneLog' = [pruneLog EXCEPT ![s] = [status |-> "running", own |-> own, victims |-> {}]]
             /\ pc' = [pc EXCEPT ![s] = "prune_delete"]
        ELSE /\ pruneLog' = [pruneLog EXCEPT ![s] =
                  [status |-> IF list = "ok" THEN "complete" ELSE "failed",
                   own |-> own, victims |-> {}]]
             /\ pc' = [pc EXCEPT ![s] = "turn_end_return"]
             /\ UNCHANGED toDelete
  /\ notices' = [notices EXCEPT ![s] = IF pc'[s] = "turn_end_return" THEN {"saved"} ELSE @]
  /\ UNCHANGED <<store, worktree, now, checkpoints, resumeCheckpoint, isGitRepo, started, tmpDirs, tmpDir, gitIndex,
                 pendingCheckpoint, rwbVars>>

\* the eviction from the map after a ref has been deleted: only if the map
\* holds this very checkpoint for the entry id
EvictByEntry(m, ref) ==
  IF MatchesTurn(ref) THEN MapDelete(m, MatchEntry(ref)) ELSE m

Evict(m, ref) ==
  IF MatchesTurn(ref) /\ MapGet(m, MatchEntry(ref)) = ref
  THEN MapDelete(m, MatchEntry(ref)) ELSE m

\* one round of the loop over toDelete: update-ref -d, then the eviction from the map
PruneDelete(s, del) ==
  /\ pc[s] = "prune_delete"
  /\ UNCHANGED rewound
  /\ UNCHANGED <<calls, edits>>
  /\ Faults(<<del>>)
  /\ LET ref == Head(toDelete[s])
         gone == IF del = "ok" /\ HasRef(store, ref) THEN {RefOf(store, ref)} ELSE {}
         last == Len(toDelete[s]) = 1
     IN IF del = "throw"
        THEN /\ pruneLog' = [pruneLog EXCEPT ![s].status = "failed"]
             /\ toDelete' = [toDelete EXCEPT ![s] = <<>>]
             /\ pc' = [pc EXCEPT ![s] = "turn_end_return"]
             /\ UNCHANGED <<store, checkpoints>>
        ELSE /\ store' = IF del = "ok" THEN DeleteRef(store, ref) ELSE store
             /\ checkpoints' = [checkpoints EXCEPT ![s] = Evict(@, ref)]
             /\ toDelete' = [toDelete EXCEPT ![s] = Tail(@)]
             /\ pruneLog' = [pruneLog EXCEPT ![s] =
                  [status |-> IF del = "fail" THEN "failed"
                              ELSE IF last /\ @.status = "running" THEN "complete"
                              ELSE @.status,
                   own |-> @.own, victims |-> @.victims \cup gone]]
             /\ pc' = [pc EXCEPT ![s] = IF last THEN "turn_end_return" ELSE "prune_delete"]
  /\ notices' = [notices EXCEPT ![s] = IF pc'[s] = "turn_end_return" THEN {"saved"} ELSE @]
  /\ UNCHANGED <<worktree, now, resumeCheckpoint, isGitRepo, started, tmpDirs, tmpDir, gitIndex, pendingCheckpoint, rwbVars>>

\* the end of turn_end: updateStatus, notify, and the finally block
TurnEndReturn(s) ==
  /\ pc[s] = "turn_end_return"
  /\ UNCHANGED rewound
  /\ pendingCheckpoint' = [pendingCheckpoint EXCEPT ![s] = NoPending]
  /\ pruneLog' = [pruneLog EXCEPT ![s] = NoPrune]
  /\ pc' = [pc EXCEPT ![s] = "idle"]
  /\ notices' = [notices EXCEPT ![s] = {}]
  /\ UNCHANGED <<store, worktree, now, faults, calls, edits, checkpoints, resumeCheckpoint, isGitRepo, started, tmpDirs, tmpDir, gitIndex,
                 rwbVars, toDelete>>

\* a turn_end event that returns at one of the checks placed before the try
\* block: not a repository, no pending capture, or not the first turn. The
\* finally block is not entered.
turn_end_ignored(s, turnIndex) ==
  /\ pc[s] = "idle"
  /\ Called
  /\ ~isGitRepo[s] \/ ~pendingCheckpoint[s].set \/ turnIndex # 0
  /\ pc' = [pc EXCEPT ![s] = "turn_end_ignored"]
  /\ UNCHANGED <<store, worktree, now, faults, edits, checkpoints, resumeCheckpoint, isGitRepo,
                 started, tmpDirs, tmpDir, notices, gitIndex, pendingCheckpoint, rwbVars, pruneVars, rewound>>

TurnEndIgnoredReturn(s) ==
  /\ pc[s] = "turn_end_ignored"
  /\ pc' = [pc EXCEPT ![s] = "idle"]
  /\ UNCHANGED <<store, worktree, now, faults, calls, edits, checkpoints, resumeCheckpoint,
                 isGitRepo, started, tmpDirs, tmpDir, notices, gitIndex, pendingCheckpoint, rwbVars, pruneVars,
                 rewound>>

----------------------------------------------------------------------------
(* session_before_branch / session_before_tree up to the call of          *)
(* restoreWithBackup: the target is looked up, the menu is built and the  *)
(* user picks a file restore ("files") or "Undo last file rewind" ("undo") *)

\* checkpoints.get(sanitized id), else resumeCheckpoint
ResolveTargetResumeFirst(m, resume, sanitizedEntryId) ==
  LET exact == MapGet(m, sanitizedEntryId)
  IN IF resume # NoName
     THEN [checkpointId |-> resume, usingResumeCheckpoint |-> TRUE]
     ELSE [checkpointId |-> exact, usingResumeCheckpoint |-> FALSE]

ResolveTarget(m, resume, sanitizedEntryId) ==
  LET exact == MapGet(m, sanitizedEntryId)
  IN IF exact # NoName
     THEN [checkpointId |-> exact, usingResumeCheckpoint |-> FALSE]
     ELSE [checkpointId |-> resume, usingResumeCheckpoint |-> resume # NoName]

\* the options pushed for a menu, by what choosing them does: "files" a file
\* restore from checkpointId, "undo" Undo last file rewind, "keep" the options
\* and the dismissal that touch no file
Options(m) ==
  {"keep"} \cup (IF m.checkpointId # NoName THEN {"files"} ELSE {})
           \cup (IF m.beforeRestoreRef # NoBackup THEN {"undo"} ELSE {})

\* the two handlers that show the menu
Handlers == {"branch", "tree"}

\* what ctx.ui.select can return for each kind of choice: the option picked, or
\* nothing ("dismiss"). branch: "all" Restore all / Restore to session start
\* (files + conversation), "code" Code only / files only, "conv" Conversation
\* only; tree: "files" Restore files to ..., "keep" Keep current files,
\* "cancel" Cancel navigation; both: "undo" Undo last file rewind
OptionLabelsConvRestores(handler, choice) ==
  IF choice = "undo" THEN {"undo"}
  ELSE IF handler = "branch"
  THEN (IF choice = "files" THEN {"all", "code", "conv"} ELSE {"conv", "dismiss"})
  ELSE (IF choice = "files" THEN {"files"} ELSE {"keep", "cancel", "dismiss"})

OptionLabels(handler, choice) ==
  IF choice = "undo" THEN {"undo"}
  ELSE IF handler = "branch"
  THEN (IF choice = "files" THEN {"all", "code"} ELSE {"conv", "dismiss"})
  ELSE (IF choice = "files" THEN {"files"} ELSE {"keep", "cancel", "dismiss"})

\* what the handler notifies and returns when the option picked restores no file:
\* "cancelled" the info notification, "cancel" the result { cancel: true };
\* returning undefined adds nothing
AfterSelect(option) ==
  IF option \in {"dismiss", "cancel"} THEN {"cancelled", "cancel"} ELSE {}

\* what the handler notifies and returns after restoreWithBackup has returned
\* success: "restored" the info notification, "cancel" { cancel: true },
\* "skipConversationRestore" { skipConversationRestore: true }
AfterRestoreUndoBranches(m, success) ==
  IF m.option = "undo"
  THEN (IF success THEN {"restored"} ELSE {"cancel"})
  ELSE IF ~success THEN {"cancel"}
  ELSE {"restored"} \cup (IF m.option = "code" THEN {"skipConversationRestore"} ELSE {})

AfterRestore(m, success) ==
  IF m.option = "undo"
  THEN (IF success THEN {"restored"} ELSE {}) \cup {"cancel"}
  ELSE IF ~success THEN {"cancel"}
  ELSE {"restored"} \cup (IF m.option = "code" THEN {"skipConversationRestore"} ELSE {})

\* the handler up to ctx.ui.select. revParse: the outcome of the handler's own
\* git rev-parse; find: of findBeforeRestoreRef's for-each-ref
RequestRestore(s, handler, entryId, revParse, find) ==
  /\ pc[s] = "idle"
  /\ started[s]
  /\ rewound' = IF rewound.by = s THEN rewound ELSE NoRewind
  /\ Called
  /\ UNCHANGED edits
  /\ IF revParse # "ok"
     THEN /\ Faults(<<revParse>>)
          /\ UNCHANGED <<menu, pc>>
     ELSE /\ Faults(<<find>>)
          /\ LET sanitizedEntryId == sanitizeForRef(entryId)
                 target == ResolveTarget(checkpoints[s], resumeCheckpoint[s], sanitizedEntryId)
             IN menu' = [menu EXCEPT ![s] =
                  [handler |-> handler,
                   entry |-> sanitizedEntryId,
                   checkpointId |-> target.checkpointId,
                   usingResumeCheckpoint |-> target.usingResumeCheckpoint,
                   beforeRestoreRef |-> findBeforeRestoreRef(store, find),
                   option |-> "none"]]
          /\ pc' = [pc EXCEPT ![s] = "select"]
  /\ UNCHANGED <<store, worktree, now, checkpoints, resumeCheckpoint, isGitRepo, started, tmpDirs, tmpDir, notices, gitIndex,
                 pendingCheckpoint, existingBackup, targetRef, rwbResult, backupCommit,
                 overwritten, pruneVars>>

\* the user's choice: the handler returns at once, or calls restoreWithBackup
Select(s, choice, option) ==
  /\ pc[s] = "select"
  /\ choice \in Options(menu[s])
  /\ option \in OptionLabels(menu[s].handler, choice)
  /\ rewound' = IF choice = "undo" /\ rewound.by = s THEN rewound ELSE NoRewind
  /\ menu' = [menu EXCEPT ![s].option = option]
  /\ IF choice = "keep"
     THEN /\ notices' = [notices EXCEPT ![s] = AfterSelect(option)]
          /\ pc' = [pc EXCEPT ![s] = "menu_return"]
          /\ UNCHANGED targetRef
     ELSE /\ targetRef' = [targetRef EXCEPT ![s] =
               IF choice = "undo"
               THEN [isSha |-> TRUE, name |-> NoName, tree |-> menu[s].beforeRestoreRef.tree]
               ELSE [isSha |-> FALSE, name |-> menu[s].checkpointId, tree |-> NoTarget.tree]]
          /\ pc' = [pc EXCEPT ![s] = "rwb_find"]
          /\ UNCHANGED notices
  /\ UNCHANGED <<store, worktree, now, faults, calls, edits, checkpoints, resumeCheckpoint,
                 isGitRepo, started, tmpDirs, tmpDir, gitIndex, pendingCheckpoint, existingBackup, rwbResult,
                 backupCommit, overwritten, pruneVars>>

\* the handler returns to the host without a restore
MenuReturn(s) ==
  /\ pc[s] = "menu_return"
  /\ pc' = [pc EXCEPT ![s] = "idle"]
  /\ menu' = [menu EXCEPT ![s] = NoMenu]
  /\ notices' = [notices EXCEPT ![s] = {}]
  /\ UNCHANGED <<store, worktree, now, faults, calls, edits, checkpoints, resumeCheckpoint,
                 isGitRepo, started, tmpDirs, tmpDir, gitIndex, pendingCheckpoint, existingBackup, targetRef,
                 rwbResult, backupCommit, overwritten, pruneVars, rewound>>

----------------------------------------------------------------------------
(* restoreWithBackup, one step per awaited git command *)

\* the catch block: notify, return false
RwbFails(s) ==
  /\ rwbResult' = [rwbResult EXCEPT ![s] = "false"]
  /\ pc' = [pc EXCEPT ![s] = "rwb_return"]
  /\ notices' = [notices EXCEPT ![s] = {"error"} \cup AfterRestore(menu[s], FALSE)]

RwbFind(s, find) ==
  /\ pc[s] = "rwb_find"
  /\ UNCHANGED rewound
  /\ UNCHANGED <<calls, edits>>
  /\ Faults(<<find>>)
  /\ existingBackup' = [existingBackup EXCEPT ![s] = findBeforeRestoreRef(store, find)]
  /\ pc' = [pc EXCEPT ![s] = "rwb_backup"]
  /\ UNCHANGED <<store, worktree, now, checkpoints, resumeCheckpoint, isGitRepo, started, tmpDirs, tmpDir, notices, gitIndex,
                 pendingCheckpoint, targetRef, rwbResult, backupCommit, overwritten, pruneVars, menu>>

\* captureWorktree, Date.now(), update-ref of the new before-restore ref
RwbBackup(s, capture, write) ==
  /\ pc[s] = "rwb_backup"
  /\ UNCHANGED rewound
  /\ UNCHANGED <<calls, edits>>
  /\ gitIndex' = IndexAfterCapture(gitIndex, worktree)
  /\ IF capture = "throw"
     THEN /\ Faults(<<capture>>)
          /\ RwbFails(s)
          /\ UNCHANGED <<store, now, backupCommit>>
     ELSE \E t \in ClockReads :
          /\ Faults(<<write>>)
          /\ backupCommit' = [backupCommit EXCEPT ![s] = worktree]
          /\ now' = t
          /\ store' = IF write = "ok" THEN UpdateRef(store, BackupName(t), worktree, s)
                      ELSE store
          /\ IF write = "throw"
             THEN RwbFails(s)
             ELSE /\ pc' = [pc EXCEPT ![s] =
                       IF existingBackup[s] # NoBackup THEN "rwb_delete" ELSE "rwb_checkout"]
                  /\ UNCHANGED <<rwbResult, notices>>
  /\ UNCHANGED <<worktree, checkpoints, resumeCheckpoint, isGitRepo, started, tmpDirs, tmpDir, pendingCheckpoint,
                 existingBackup, targetRef, overwritten, pruneVars, menu>>

\* update-ref -d of the backup found at entry
RwbDelete(s, del) ==
  /\ pc[s] = "rwb_delete"
  /\ UNCHANGED rewound
  /\ UNCHANGED <<calls, edits>>
  /\ Faults(<<del>>)
  /\ store' = IF del = "ok" THEN DeleteRef(store, existingBackup[s].name) ELSE store
  /\ IF del = "throw"
     THEN RwbFails(s)
     ELSE /\ pc' = [pc EXCEPT ![s] = "rwb_checkout"]
          /\ UNCHANGED <<rwbResult, notices>>
  /\ UNCHANGED <<worktree, now, checkpoints, resumeCheckpoint, isGitRepo, started, tmpDirs, tmpDir, gitIndex,
                 pendingCheckpoint, existingBackup, targetRef, backupCommit, overwritten,
                 pruneVars, menu>>

\* git checkout targetRef -- . : a ref that is gone cannot be checked out
RwbCheckout(s, co) ==
  /\ pc[s] = "rwb_checkout"
  /\ rewound' =
       IF co = "ok" /\ ~targetRef[s].isSha /\ HasRef(store, targetRef[s].name)
          /\ \A t \in Sessions \ {s} : pc[t] = "idle"
       THEN [phase |-> "restored", by |-> s, tree |-> backupCommit[s]]
       ELSE IF co = "ok" /\ targetRef[s].isSha /\ rewound.by = s
       THEN [rewound EXCEPT !.phase = "undone"]
       ELSE NoRewind
  /\ UNCHANGED <<calls, edits>>
  /\ Faults(<<co>>)
  /\ LET resolvable == targetRef[s].isSha \/ HasRef(store, targetRef[s].name)
         tree == IF targetRef[s].isSha THEN targetRef[s].tree
                 ELSE RefOf(store, targetRef[s].name).tree
         done == co = "ok" /\ resolvable
     IN /\ worktree' = IF done THEN Checkout(worktree, tree) ELSE worktree
        /\ gitIndex' = IF done THEN Checkout(gitIndex, tree) ELSE gitIndex
        /\ overwritten' = [overwritten EXCEPT ![s] = done]
  /\ rwbResult' = [rwbResult EXCEPT ![s] = IF co = "throw" THEN "false" ELSE "true"]
  /\ notices' = [notices EXCEPT ![s] =
                    IF co = "throw" THEN {"error"} \cup AfterRestore(menu[s], FALSE)
                    ELSE AfterRestore(menu[s], TRUE)]
  /\ pc' = [pc EXCEPT ![s] = "rwb_return"]
  /\ UNCHANGED <<store, now, checkpoints, resumeCheckpoint, isGitRepo, started, tmpDirs, tmpDir,
                 pendingCheckpoint, existingBackup, targetRef, backupCommit, pruneVars, menu>>

\* the handler after restoreWithBackup has returned: notify, return to the host
RwbReturn(s) ==
  /\ pc[s] = "rwb_return"
  /\ rewound' = IF rewound.phase = "undone" THEN NoRewind ELSE rewound
  /\ pc' = [pc EXCEPT ![s] = "idle"]
  /\ existingBackup' = [existingBackup EXCEPT ![s] = NoBackup]
  /\ targetRef' = [targetRef EXCEPT ![s] = NoTarget]
  /\ rwbResult' = [rwbResult EXCEPT ![s] = "none"]
  /\ backupCommit' = [backupCommit EXCEPT ![s] = NoTree]
  /\ overwritten' = [overwritten EXCEPT ![s] = FALSE]
  /\ menu' = [menu EXCEPT ![s] = NoMenu]
  /\ notices' = [notices EXCEPT ![s] = {}]
  /\ UNCHANGED <<store, worktree, now, faults, calls, edits, checkpoints, resumeCheckpoint, isGitRepo, started, tmpDirs, tmpDir, gitIndex,
                 pendingCheckpoint, pruneVars>>

----------------------------------------------------------------------------

\* the handlers and menu options exercised where two sessions interleave
MainHandlers == {"branch"}
MainLabels == {"code", "undo", "conv"}

SessionStep(s, handlers, labels) ==
  \/ \E revParse \in {"ok", "fail"} :
       \E list \in ExecOutcomes : \E capture \in CaptureOutcomes : \E write \in ExecOutcomes :
         initializeForSession(s, revParse, list, capture, write)
  \/ InitReturn(s)
  \/ \E turnIndex \in {0, 1} : \E capture \in CaptureOutcomes :
       turn_start(s, turnIndex, capture)
  \/ \E turnIndex \in {0, 1} : \E userEntry \in RawIds \cup {<<>>} :
       \E write \in ExecOutcomes : turn_end(s, turnIndex, userEntry, write)
  \/ \E list \in ExecOutcomes : PruneList(s, list)
  \/ \E del \in ExecOutcomes : PruneDelete(s, del)
  \/ TurnEndReturn(s)
  \/ \E handler \in handlers : \E entryId \in RequestIds : \E revParse \in {"ok", "fail"} :
       \E find \in ExecOutcomes : RequestRestore(s, handler, entryId, revParse, find)
  \/ \E choice \in {"files", "undo", "keep"} : \E option \in labels : Select(s, choice, option)
  \/ MenuReturn(s)
  \/ \E find \in ExecOutcomes : RwbFind(s, find)
  \/ \E capture \in CaptureOutcomes : \E write \in ExecOutcomes :
       RwbBackup(s, capture, write)
  \/ \E del \in ExecOutcomes : RwbDelete(s, del)
  \/ \E co \in ExecOutcomes : RwbCheckout(s, co)
  \/ RwbReturn(s)

UserEdit == \E f \in EditableFiles : \E c \in FileContents(f) : Edit(f, c)

Next ==
  \/ UserEdit
  \/ \E s \in Sessions : SessionStep(s, MainHandlers, MainLabels)

Spec == Init /\ [][Next]_vars

\* one session, both handlers, every option of their menus
MenuUser == "A"
AllLabels == UNION {OptionLabels(h, c) : h \in Handlers, c \in {"files", "undo", "keep"}}

NextMenu ==
  \/ UserEdit
  \/ SessionStep(MenuUser, Handlers, AllLabels)

SpecMenu == Init /\ [][NextMenu]_vars

\* one session that receives the session and turn events only, the turn_end
\* events that the handler ignores included
TurnUser == "A"

NextTurn ==
  \/ UserEdit
  \/ \E revParse \in {"ok", "fail"} :
       \E list \in ExecOutcomes : \E capture \in CaptureOutcomes : \E write \in ExecOutcomes :
         initializeForSession(TurnUser, revParse, list, capture, write)
  \/ InitReturn(TurnUser)
  \/ \E turnIndex \in {0, 1} : \E capture \in CaptureOutcomes :
       turn_start(TurnUser, turnIndex, capture)
  \/ \E turnIndex \in {0, 1} : \E userEntry \in RawIds \cup {<<>>} :
       \E write \in ExecOutcomes : turn_end(TurnUser, turnIndex, userEntry, write)
  \/ \E turnIndex \in {0, 1} : turn_start_ignored(TurnUser, turnIndex)
  \/ TurnStartIgnoredReturn(TurnUser)
  \/ \E turnIndex \in {0, 1} : turn_end_ignored(TurnUser, turnIndex)
  \/ TurnEndIgnoredReturn(TurnUser)
  \/ \E list \in ExecOutcomes : PruneList(TurnUser, list)
  \/ \E del \in ExecOutcomes : PruneDelete(TurnUser, del)
  \/ TurnEndReturn(TurnUser)

SpecTurn == Init /\ [][NextTurn]_vars

\* a store to which the instance of another pi process has just added its resume
\* checkpoint, in the millisecond that the next Date.now() of this process
\* returns as well
InitSameMs ==
  /\ store = UpdateRef(OldStore, ResumeName(MAX_CHECKPOINTS + 1), OldTree(MAX_CHECKPOINTS + 1), "B")
  /\ worktree = [f \in Files |-> IF f = "f" THEN "x" ELSE Absent]
  /\ now = MAX_CHECKPOINTS
  /\ faults = 0
  /\ calls = 0
  /\ edits = 0
  /\ checkpoints = [s \in Sessions |-> EmptyMap]
  /\ resumeCheckpoint = [s \in Sessions |-> NoName]
  /\ isGitRepo = [s \in Sessions |-> FALSE]
  /\ pendingCheckpoint = [s \in Sessions |-> NoPending]
  /\ pc = [s \in Sessions |-> "idle"]
  /\ existingBackup = [s \in Sessions |-> NoBackup]
  /\ targetRef = [s \in Sessions |-> NoTarget]
  /\ toDelete = [s \in Sessions |-> <<>>]
  /\ rwbResult = [s \in Sessions |-> "none"]
  /\ backupCommit = [s \in Sessions |-> NoTree]
  /\ overwritten = [s \in Sessions |-> FALSE]
  /\ pruneLog = [s \in Sessions |-> NoPrune]
  /\ rewound = NoRewind
  /\ menu = [s \in Sessions |-> NoMenu]
  /\ started = [s \in Sessions |-> FALSE]
  /\ notices = [s \in Sessions |-> {}]
  /\ gitIndex = [f \in Files |-> IF f = "f" THEN "x" ELSE Absent]
  /\ tmpDirs = {}
  /\ tmpDir = [s \in Sessions |-> 0]

SpecSameMs == InitSameMs /\ [][NextMenu]_vars

----------------------------------------------------------------------------
(* The text of the checkpoint ids: `checkpoint-${timestamp}-${sanitizedEntryId}` *)
(* as turn_end builds it, and /^checkpoint-(\d+)-(.+)$/ as                       *)
(* rebuildCheckpointsMap matches it. Here the names are sequences of characters. *)

\* length of the entry ids
MaxIdLen == 3

\* number of refs written in one behaviour
MaxCodecRefs == 2

\* characters of the entry ids: a letter, a digit, the hyphen and two characters
\* outside [a-zA-Z0-9-]
CodecChars == {"a", "1", "-", ".", "_"}

CodecIds == UNION {[1..n -> CodecChars] : n \in 1..MaxIdLen}

Digits == {"0", "1", "2", "3", "4", "5", "6", "7", "8", "9"}

DigitText(d) == <<"0", "1", "2", "3", "4", "5", "6", "7", "8", "9">>[d + 1]

\* `${timestamp}`: the decimal digits of a number
RECURSIVE TsText(_)
TsText(n) == IF n < 10 THEN <<DigitText(n)>> ELSE TsText(n \div 10) \o <<DigitText(n % 10)>>

CheckpointText == <<"c", "h", "e", "c", "k", "p", "o", "i", "n", "t", "-">>
ResumeText == CheckpointText \o <<"r", "e", "s", "u", "m", "e", "-">>

StartsWith(t, p) == Len(t) >= Len(p) /\ SubSeq(t, 1, Len(p)) = p

\* `checkpoint-${pendingCheckpoint.timestamp}-${sanitizedEntryId}`
EncodeTurn(ts, sanitizedEntryId) == CheckpointText \o TsText(ts) \o <<"-">> \o sanitizedEntryId

\* `checkpoint-resume-${Date.now()}`
EncodeResume(ts) == ResumeText \o TsText(ts)

\* a match that takes the entry id from the last hyphen on
MatchCheckpointIdLastHyphen(t) ==
  LET hy == {k \in 1..Len(t) : t[k] = "-"}
      last == CHOOSE k \in hy : \A h \in hy : h <= k
  IN IF StartsWith(t, CheckpointText) /\ last < Len(t)
     THEN [matched |-> TRUE, entry |-> SubSeq(t, last + 1, Len(t))]
     ELSE [matched |-> FALSE, entry |-> <<>>]

\* checkpointId.match(/^checkpoint-(\d+)-(.+)$/) after the two startsWith tests:
\* the digits are a non-empty run right after the prefix that a hyphen follows
\* (the greedy \d+ takes the longest), the entry id is all the rest, not empty
MatchCheckpointId(t) ==
  LET rest == SubSeq(t, Len(CheckpointText) + 1, Len(t))
      splits == {k \in 1..Len(rest) :
                   /\ \A i \in 1..k : rest[i] \in Digits
                   /\ k + 2 <= Len(rest)
                   /\ rest[k + 1] = "-"}
      k == CHOOSE x \in splits : \A y \in splits : y <= x
  IN IF StartsWith(t, CheckpointText) /\ ~StartsWith(t, ResumeText) /\ splits # {}
     THEN [matched |-> TRUE, entry |-> SubSeq(rest, k + 2, Len(rest))]
     ELSE [matched |-> FALSE, entry |-> <<>>]

\* checkpoints.get(sanitizedEntryId) on a map of texts: the empty text if unset
GetText(m, k) == IF k \in DOMAIN m THEN m[k] ELSE <<>>

\* the loop of rebuildCheckpointsMap over the listed texts
RebuildLoopText(m, refs) ==
  LET matching == SelectSeq(refs, LAMBDA t : MatchCheckpointId(t).matched)
      keys == {MatchCheckpointId(matching[i]).entry : i \in 1..Len(matching)}
      setFor(k) == SelectSeq(matching, LAMBDA t : MatchCheckpointId(t).entry = k)
  IN [k \in (DOMAIN m) \cup keys |->
        IF k \in keys THEN setFor(k)[Len(setFor(k))] ELSE m[k]]

InitCodec ==
  /\ store = <<>>
  /\ checkpoints = [s \in Sessions |-> EmptyMap]
  /\ worktree = [f \in Files |-> IF f = "f" THEN "x" ELSE Absent]
  /\ now = 9
  /\ faults = 0
  /\ calls = 0
  /\ edits = 0
  /\ resumeCheckpoint = [s \in Sessions |-> NoName]
  /\ isGitRepo = [s \in Sessions |-> TRUE]
  /\ pendingCheckpoint = [s \in Sessions |-> NoPending]
  /\ pc = [s \in Sessions |-> "idle"]
  /\ existingBackup = [s \in Sessions |-> NoBackup]
  /\ targetRef = [s \in Sessions |-> NoTarget]
  /\ toDelete = [s \in Sessions |-> <<>>]
  /\ rwbResult = [s \in Sessions |-> "none"]
  /\ backupCommit = [s \in Sessions |-> NoTree]
  /\ overwritten = [s \in Sessions |-> FALSE]
  /\ pruneLog = [s \in Sessions |-> NoPrune]
  /\ rewound = NoRewind
  /\ menu = [s \in Sessions |-> NoMenu]
  /\ started = [s \in Sessions |-> TRUE]
  /\ notices = [s \in Sessions |-> {}]
  /\ gitIndex = [f \in Files |-> IF f = "f" THEN "x" ELSE Absent]
  /\ tmpDirs = {}
  /\ tmpDir = [s \in Sessions |-> 0]

codecFrame == <<worktree, faults, calls, edits, isGitRepo, pendingCheckpoint, existingBackup,
                targetRef, toDelete, rwbResult, backupCommit, overwritten, pruneLog, rewound,
                menu, started, tmpDirs, tmpDir, notices, gitIndex>>

\* turn_end from the entry id on: sanitize, build the text, update-ref, map set
\* (each ref of this store also records the entry id it was committed for)
CommitTurn(s, entryId) ==
  /\ Len(store) < MaxCodecRefs
  /\ LET sanitizedEntryId == sanitizeForRef(entryId)
         checkpointId == EncodeTurn(now + 1, sanitizedEntryId)
     IN /\ store' = Append(store, [name |-> checkpointId, tree |-> worktree, by |-> s,
                                        entryId |-> entryId])
        /\ checkpoints' = [checkpoints EXCEPT ![s] = MapSet(@, sanitizedEntryId, checkpointId)]
  /\ now' = now + 1
  /\ pc' = [pc EXCEPT ![s] = "committed"]
  /\ UNCHANGED <<resumeCheckpoint, codecFrame>>

\* the resume checkpoint of initializeForSession, written without a rebuild
CommitResume(s) ==
  /\ Len(store) < MaxCodecRefs
  /\ store' = Append(store, [name |-> EncodeResume(now + 1), tree |-> worktree, by |-> s,
                                     entryId |-> <<>>])
  /\ resumeCheckpoint' = [resumeCheckpoint EXCEPT ![s] = EncodeResume(now + 1)]
  /\ now' = now + 1
  /\ pc' = [pc EXCEPT ![s] = "idle"]
  /\ UNCHANGED <<checkpoints, codecFrame>>

\* resetState and rebuildCheckpointsMap: the map is rebuilt from the listed texts
RebuildTexts(s) ==
  /\ pc[s] # "rebuilt"
  /\ checkpoints' = [checkpoints EXCEPT ![s] =
                       RebuildLoopText(EmptyMap, [i \in 1..Len(store) |-> store[i].name])]
  /\ pc' = [pc EXCEPT ![s] = "rebuilt"]
  /\ UNCHANGED <<store, now, resumeCheckpoint, codecFrame>>

NextCodec ==
  \/ \E entryId \in CodecIds : CommitTurn(TurnUser, entryId)
  \/ CommitResume(TurnUser)
  \/ RebuildTexts(TurnUser)

SpecCodec == InitCodec /\ [][NextCodec]_vars

----------------------------------------------------------------------------
(* captureWorktree command by command, as called by turn_start: getRepoRoot, *)
(* mkdtemp, git add -A and git write-tree on the temporary index, git        *)
(* commit-tree, and the finally block that removes the directory.            *)
(* (In the other specifications a capture is one step and the directory it   *)
(* makes and removes is not shown.)                                          *)

NoDir == 0

CapturePcs == {"capture_add", "capture_write_tree", "capture_commit_tree",
               "capture_finally", "capture_finally_thrown"}

\* a removal that is run only when the try block has not thrown
captureCleanupOnSuccess(dirs, id, thrown, rm) ==
  IF rm = "ok" /\ ~thrown THEN {d \in dirs : d.id # id} ELSE dirs

\* finally { await rm(tmpDir, { recursive: true, force: true }).catch(() => {}) }
captureCleanup(dirs, id, thrown, rm) ==
  IF rm = "ok" THEN {d \in dirs : d.id # id} ELSE dirs

InitCapture ==
  /\ store = <<>>
  /\ checkpoints = [s \in Sessions |-> EmptyMap]
  /\ worktree = [f \in Files |-> IF f = "f" THEN "x" ELSE Absent]
  /\ now = MAX_CHECKPOINTS
  /\ faults = 0
  /\ calls = 0
  /\ edits = 0
  /\ resumeCheckpoint = [s \in Sessions |-> NoName]
  /\ isGitRepo = [s \in Sessions |-> TRUE]
  /\ pendingCheckpoint = [s \in Sessions |-> NoPending]
  /\ pc = [s \in Sessions |-> "idle"]
  /\ existingBackup = [s \in Sessions |-> NoBackup]
  /\ targetRef = [s \in Sessions |-> NoTarget]
  /\ toDelete = [s \in Sessions |-> <<>>]
  /\ rwbResult = [s \in Sessions |-> "none"]
  /\ backupCommit = [s \in Sessions |-> NoTree]
  /\ overwritten = [s \in Sessions |-> FALSE]
  /\ pruneLog = [s \in Sessions |-> NoPrune]
  /\ rewound = NoRewind
  /\ menu = [s \in Sessions |-> NoMenu]
  /\ started = [s \in Sessions |-> TRUE]
  /\ notices = [s \in Sessions |-> {}]
  /\ gitIndex = [f \in Files |-> IF f = "f" THEN "x" ELSE Absent]
  /\ tmpDirs = {}
  /\ tmpDir = [s \in Sessions |-> NoDir]

captureFrame == <<store, worktree, edits, checkpoints, resumeCheckpoint, isGitRepo,
                  existingBackup, targetRef, toDelete, rwbResult, backupCommit, overwritten,
                  pruneLog, rewound, menu, started, notices, gitIndex>>

\* turn_start up to mkdtemp: a failure of getRepoRoot or of mkdtemp is thrown
\* before the try block and caught by turn_start
CaptureBegin(s, root, mk) ==
  /\ pc[s] = "idle"
  /\ isGitRepo[s]
  /\ Called
  /\ root = "throw" => mk = "ok"
  /\ Faults(IF root = "throw" THEN <<root>> ELSE <<mk>>)
  /\ IF root = "throw" \/ mk = "throw"
     THEN /\ pendingCheckpoint' = [pendingCheckpoint EXCEPT ![s] = NoPending]
          /\ UNCHANGED <<pc, tmpDirs, tmpDir>>
     ELSE /\ tmpDirs' = tmpDirs \cup {[id |-> calls + 1, index |-> NoTree, by |-> s]}
          /\ tmpDir' = [tmpDir EXCEPT ![s] = calls + 1]
          /\ pc' = [pc EXCEPT ![s] = "capture_add"]
          /\ UNCHANGED pendingCheckpoint
  /\ UNCHANGED <<now, captureFrame>>

\* git add -A with GIT_INDEX_FILE = tmpDir/index
CaptureAdd(s, add) ==
  /\ pc[s] = "capture_add"
  /\ Faults(<<add>>)
  /\ tmpDirs' = IF add = "ok"
                THEN {IF d.id = tmpDir[s] THEN [d EXCEPT !.index = worktree] ELSE d : d \in tmpDirs}
                ELSE tmpDirs
  /\ pc' = [pc EXCEPT ![s] = IF add = "ok" THEN "capture_write_tree" ELSE "capture_finally_thrown"]
  /\ UNCHANGED <<now, calls, pendingCheckpoint, tmpDir, captureFrame>>

\* git write-tree with GIT_INDEX_FILE = tmpDir/index
CaptureWriteTree(s, wt) ==
  /\ pc[s] = "capture_write_tree"
  /\ Faults(<<wt>>)
  /\ pc' = [pc EXCEPT ![s] = IF wt = "ok" THEN "capture_commit_tree" ELSE "capture_finally_thrown"]
  /\ UNCHANGED <<now, calls, pendingCheckpoint, tmpDirs, tmpDir, captureFrame>>

\* git commit-tree <treeSha>
CaptureCommitTree(s, ct) ==
  /\ pc[s] = "capture_commit_tree"
  /\ Faults(<<ct>>)
  /\ pc' = [pc EXCEPT ![s] = IF ct = "ok" THEN "capture_finally" ELSE "capture_finally_thrown"]
  /\ UNCHANGED <<now, calls, pendingCheckpoint, tmpDirs, tmpDir, captureFrame>>

\* the finally block, then the return or the throw into turn_start, which sets
\* pendingCheckpoint; the commit holds the tree written from the call's index
CaptureFinally(s, rm) ==
  /\ pc[s] \in {"capture_finally", "capture_finally_thrown"}
  /\ Faults(<<rm>>)
  /\ LET thrown == pc[s] = "capture_finally_thrown"
         own == CHOOSE d \in tmpDirs : d.id = tmpDir[s]
     IN /\ tmpDirs' = captureCleanup(tmpDirs, tmpDir[s], thrown, rm)
        /\ \E t \in ClockReads :
             /\ pendingCheckpoint' =
                  [pendingCheckpoint EXCEPT ![s] =
                     IF thrown THEN NoPending
                     ELSE [set |-> TRUE, commitSha |-> own.index, timestamp |-> t]]
             /\ now' = t
  /\ tmpDir' = [tmpDir EXCEPT ![s] = NoDir]
  /\ pc' = [pc EXCEPT ![s] = "idle"]
  /\ UNCHANGED <<calls, captureFrame>>

NextCapture ==
  \/ UserEdit
  \/ \E s \in Sessions :
       \/ \E root \in CaptureOutcomes : \E mk \in CaptureOutcomes : CaptureBegin(s, root, mk)
       \/ \E add \in CaptureOutcomes : CaptureAdd(s, add)
       \/ \E wt \in CaptureOutcomes : CaptureWriteTree(s, wt)
       \/ \E ct \in CaptureOutcomes : CaptureCommitTree(s, ct)
       \/ \E rm \in CaptureOutcomes : CaptureFinally(s, rm)

SpecCapture == InitCapture /\ [][NextCapture]_vars

----------------------------------------------------------------------------
(* rebuildCheckpointsMap on its own: any small ref store, any map the       *)
(* closure may hold when it is called, and the ref writes and deletes of    *)
(* other git clients between two calls. One extension instance calls.       *)

\* number of refs in the store
MaxStoreRefs == 3

RebuildNames ==
  UNION {{TurnName(t, <<"a">>), TurnName(t, <<"b">>), ResumeName(t), BackupName(t),
          UnparsedName(t)} :
           t \in 1..MaxStoreRefs}

StoredAs(name) == [name |-> name, tree |-> OldTree(name.ts), by |-> "legacy"]

\* the stores of n refs created at times 1..n
RebuildStores ==
  UNION {{[i \in 1..n |-> StoredAs(g[i])] :
            g \in {h \in [1..n -> RebuildNames] : \A i \in 1..n : h[i].ts = i}} :
           n \in 0..MaxStoreRefs}

\* the map before a call: empty after resetState, or holding an entry set earlier
RebuildMaps == {EmptyMap, MapSet(EmptyMap, <<"a">>, TurnName(1, <<"a">>))}

\* the session whose instance calls rebuildCheckpointsMap
Rebuilder == "A"

InitRebuild ==
  /\ store \in RebuildStores
  /\ checkpoints \in {[s \in Sessions |-> IF s = Rebuilder THEN m ELSE EmptyMap] : m \in RebuildMaps}
  /\ worktree = [f \in Files |-> IF f = "f" THEN "x" ELSE Absent]
  /\ now = MaxStoreRefs
  /\ faults = 0
  /\ calls = 0
  /\ edits = 0
  /\ resumeCheckpoint = [s \in Sessions |-> NoName]
  /\ isGitRepo = [s \in Sessions |-> TRUE]
  /\ pendingCheckpoint = [s \in Sessions |-> NoPending]
  /\ pc = [s \in Sessions |-> "idle"]
  /\ existingBackup = [s \in Sessions |-> NoBackup]
  /\ targetRef = [s \in Sessions |-> NoTarget]
  /\ toDelete = [s \in Sessions |-> <<>>]
  /\ rwbResult = [s \in Sessions |-> "none"]
  /\ backupCommit = [s \in Sessions |-> NoTree]
  /\ overwritten = [s \in Sessions |-> FALSE]
  /\ pruneLog = [s \in Sessions |-> NoPrune]
  /\ rewound = NoRewind
  /\ menu = [s \in Sessions |-> NoMenu]
  /\ started = [s \in Sessions |-> TRUE]
  /\ notices = [s \in Sessions |-> {}]
  /\ gitIndex = [f \in Files |-> IF f = "f" THEN "x" ELSE Absent]
  /\ tmpDirs = {}
  /\ tmpDir = [s \in Sessions |-> 0]

rebuildFrame == <<worktree, now, faults, calls, edits, resumeCheckpoint, isGitRepo,
                  pendingCheckpoint, existingBackup, targetRef, toDelete, rwbResult,
                  backupCommit, overwritten, pruneLog, rewound, menu, started, tmpDirs, tmpDir,
                  notices, gitIndex>>

\* one call of rebuildCheckpointsMap by session s. pc[s] is "rebuilt" once a call
\* of s has listed the store, "rebuilt_again" once s has called again, and
\* "idle" again as soon as a ref is written or deleted.
Rebuild(s, list) ==
  /\ checkpoints' = [checkpoints EXCEPT ![s] = rebuildCheckpointsMap(@, store, list)]
  /\ pc' = [pc EXCEPT ![s] = IF pc[s] # "idle" THEN "rebuilt_again"
                              ELSE IF list = "ok" THEN "rebuilt" ELSE "idle"]
  /\ UNCHANGED <<store, rebuildFrame>>

\* git update-ref <name>: a ref newer than every ref of the store
RefWritten(name) ==
  /\ Len(store) < MaxStoreRefs
  /\ \A i \in 1..Len(store) : store[i].name.ts < name.ts
  /\ store' = UpdateRef(store, name, OldTree(name.ts), "legacy")
  /\ pc' = [s \in Sessions |-> "idle"]
  /\ UNCHANGED <<checkpoints, rebuildFrame>>

\* git update-ref -d <name>
RefDeleted(name) ==
  /\ HasRef(store, name)
  /\ store' = DeleteRef(store, name)
  /\ pc' = [s \in Sessions |-> "idle"]
  /\ UNCHANGED <<checkpoints, rebuildFrame>>

NextRebuild ==
  \/ \E list \in ExecOutcomes : Rebuild(Rebuilder, list)
  \/ \E name \in RebuildNames : RefWritten(name)
  \/ \E name \in RebuildNames : RefDeleted(name)

SpecRebuild == InitRebuild /\ [][NextRebuild]_vars

----------------------------------------------------------------------------
(* Properties *)

\* C1: a prune pass run by a session deletes no turn checkpoint that another
\* session created.
C1_PruneDeletesOnlyOwn ==
  \A s \in Sessions : \A r \in pruneLog[s].victims : r.by = s

\* C2: after a prune pass, every entry id in a checkpoint map is mapped to a ref
\* that is in the store (stated for the runs in which no git command has failed).
C2_MapRefsStored ==
  (faults = 0 /\ \E s \in Sessions : pc[s] = "turn_end_return" /\ pruneLog[s].status # "none")
    => \A t \in Sessions : \A k \in DOMAIN checkpoints[t] : HasRef(store, checkpoints[t][k])

\* C3: immediately after restoreWithBackup has returned, the session has exactly
\* one before-restore ref (stated for the runs in which no git command has failed).
C3_ExactlyOneBackup ==
  faults = 0 =>
    \A s \in Sessions : pc[s] = "rwb_return" => Len(OwnBackups(store, s)) = 1

\* C4: a successful file restore immediately followed by a successful undo leaves
\* the worktree as it was captured just before the restore.
C4_UndoRestoresWorktree ==
  (faults = 0 /\ rewound.phase = "undone") => worktree = rewound.tree

C6_BackupOutlivesOverwrite ==
  faults = 0 =>
    \A s \in Sessions : overwritten[s] =>
      \E i \in 1..Len(store) :
        store[i].name.kind = "before-restore" /\ store[i].tree = backupCommit[s]

\* C7: once a session has a before-restore backup, no step leaves it with none
\* (stated for the runs in which no git command has failed).
C7_BackupNeverLost ==
  [][faults' = 0 =>
       \A s \in Sessions : OwnBackups(store, s) # <<>> => OwnBackups(store', s) # <<>>]_vars

\* C8: between handlers, the checkpoint map of an initialized session equals the
\* map rebuildCheckpointsMap produces from the store (stated for the runs in
\* which no git command has failed).
C8_MapEqualsRebuild ==
  faults = 0 =>
    \A s \in Sessions : (isGitRepo[s] /\ pc[s] = "idle") =>
      checkpoints[s] = rebuildCheckpointsMap(EmptyMap, store, "ok")

C10_MapOnlyOwn ==
  \A s \in Sessions : \A k \in DOMAIN checkpoints[s] :
    HasRef(store, checkpoints[s][k]) => RefOf(store, checkpoints[s][k]).by \in {s, "legacy"}

\* C11: the before-restore backup a session offers for undo, and the one its
\* restoreWithBackup is about to delete, was written by that session.
C11_OwnBackupOnly ==
  \A s \in Sessions :
    /\ (pc[s] = "select" /\ menu[s].beforeRestoreRef # NoBackup /\ HasRef(store, menu[s].beforeRestoreRef.name))
         => RefOf(store, menu[s].beforeRestoreRef.name).by = s
    /\ (pc[s] = "rwb_delete" /\ HasRef(store, existingBackup[s].name))
         => RefOf(store, existingBackup[s].name).by = s

\* C12: in the menu of a restore request for entry E the file-restore target is
\* (a) the checkpoint the map holds for sanitized E, not flagged session-start;
\* (b) else the resume checkpoint, flagged session-start; (c) else there is none
\* and no file-restore option is offered, only the one that keeps the files.
C12_ResolutionOrder ==
  \A s \in Sessions :
    pc[s] = "select" =>
      LET exact == MapGet(checkpoints[s], menu[s].entry)
          resume == resumeCheckpoint[s]
          m == menu[s]
      IN /\ exact # NoName =>
              /\ m.checkpointId = exact
              /\ ~m.usingResumeCheckpoint
              /\ "files" \in Options(m)
         /\ (exact = NoName /\ resume # NoName) =>
              /\ m.checkpointId = resume
              /\ m.usingResumeCheckpoint
              /\ "files" \in Options(m)
         /\ (exact = NoName /\ resume = NoName) =>
              /\ m.checkpointId = NoName
              /\ ~m.usingResumeCheckpoint
              /\ Options(m) \ {"undo"} = {"keep"}

\* one session has a menu with an exact target although it has a resume
\* checkpoint, the other a menu whose target is its resume checkpoint
C12_ExactAndResumeMenus ==
  \E s, t \in Sessions :
    /\ pc[s] = "select" /\ pc[t] = "select"
    /\ resumeCheckpoint[s] # NoName
    /\ MapGet(checkpoints[s], menu[s].entry) # NoName
    /\ menu[s].checkpointId = MapGet(checkpoints[s], menu[s].entry)
    /\ menu[t].usingResumeCheckpoint
    /\ menu[t].checkpointId = resumeCheckpoint[t]

\* C13: a menu offers "Undo last file rewind" exactly when the session has a
\* before-restore backup at the time the menu is built, and an undo that is
\* chosen restores the tree of the most recently created one (stated for the
\* runs in which no git command has failed; the backup is the session's own,
\* the only one C11 lets its undo read).
C13_UndoNewestBackup ==
  [][faults' = 0 =>
      \A s \in Sessions :
        LET own == OwnBackups(store, s)
        IN /\ (pc[s] = "idle" /\ pc'[s] = "select") =>
                (("undo" \in Options(menu'[s])) <=> (own # <<>>))
           /\ (pc[s] = "select" /\ pc'[s] = "rwb_find" /\ targetRef'[s].isSha) =>
                /\ own # <<>>
                /\ targetRef'[s].tree = own[Len(own)].tree]_vars

\* C14: a session whose last initialization did not detect a repository runs no
\* restore: none of its later events gets as far as restoreWithBackup, which
\* writes a before-restore ref, deletes one and overwrites the worktree.
C14_DisabledRunsNoRestore ==
  \A s \in Sessions :
    (started[s] /\ ~isGitRepo[s]) =>
      pc[s] \notin {"rwb_find", "rwb_backup", "rwb_delete", "rwb_checkout", "rwb_return"}

\* C15: a session start or switch replaces the in-memory state: when
\* initializeForSession is done no pending capture is left, the resume checkpoint
\* is absent or the one just written, and every map entry is one the rebuild
\* derives from the store as it is at that moment; the map holds all of them when
\* no git command of the initialization has failed.
C15_InitReplacesState ==
  [][\A s \in Sessions :
       (pc[s] = "idle" /\ pc'[s] = "init_return") =>
         LET derived == rebuildCheckpointsMap(EmptyMap, store, "ok")
             m == checkpoints'[s]
         IN /\ pendingCheckpoint'[s] = NoPending
            /\ resumeCheckpoint'[s] # NoName =>
                 /\ resumeCheckpoint'[s] = ResumeName(now')
                 /\ resumeCheckpoint'[s] # resumeCheckpoint[s]
                 /\ ~HasRef(store, resumeCheckpoint'[s])
            /\ \A k \in DOMAIN m : MapGet(derived, k) = m[k]
            /\ faults' = faults => m = derived]_vars

\* a session that has a resume checkpoint, a pending capture and a map is being
\* initialized again
C15_SecondInitDone ==
  \E s \in Sessions :
    /\ pc[s] = "init_return"
    /\ isGitRepo[s]
    /\ checkpoints[s] # EmptyMap
    /\ resumeCheckpoint[s] # NoName
    /\ \E i \in 1..Len(store) :
         /\ store[i].by = s
         /\ store[i].name.kind = "checkpoint-resume"
         /\ store[i].name # resumeCheckpoint[s]
    /\ pendingCheckpoint[s] = NoPending

\* C16: turn_start records the worktree as it is then and the turn-start
\* timestamp; a turn_end that resolves a user entry id E and whose git commands
\* succeed leaves a ref named by that timestamp and sanitized E which points to
\* the recorded snapshot, and the map maps sanitized E to that ref, both right
\* after the ref is written and when the handler is done with its prune.
C16_TurnCheckpointCommitted ==
  [][\A s \in Sessions :
       LET p == pendingCheckpoint[s]
           committed(st, m) ==
             \E E \in {sanitizeForRef(id) : id \in RawIds} :
               LET name == TurnName(p.timestamp, E)
               IN /\ HasRef(st, name)
                  /\ RefOf(st, name).tree = p.commitSha
                  /\ MapGet(m, E) = name
       IN /\ (pendingCheckpoint'[s].set /\ pendingCheckpoint'[s] # p) =>
               /\ pendingCheckpoint'[s].commitSha = worktree
               /\ pendingCheckpoint'[s].timestamp = now'
          /\ (pc[s] = "idle" /\ pc'[s] = "prune_list" /\ faults' = faults) =>
               committed(store', checkpoints'[s])
          /\ (pc[s] \in {"prune_list", "prune_delete"} /\ pc'[s] = "turn_end_return"
              /\ faults' = 0) =>
               (pendingCheckpoint'[s] = p /\ committed(store', checkpoints'[s]))]_vars

\* a turn has ended with its checkpoint committed although the worktree was
\* modified during the turn
C16_TurnEndedAfterEdit ==
  \E s \in Sessions :
    /\ pc[s] = "turn_end_return"
    /\ faults = 0
    /\ pendingCheckpoint[s].set
    /\ pendingCheckpoint[s].commitSha # worktree
    /\ \E i \in 1..Len(store) :
         /\ store[i].by = s
         /\ store[i].name.kind = "checkpoint"
         /\ store[i].name.ts = pendingCheckpoint[s].timestamp
         /\ store[i].tree = pendingCheckpoint[s].commitSha

C18_OnlyRestoreFailuresSurface ==
  \A s \in Sessions :
    /\ "error" \in notices[s] => (pc[s] = "rwb_return" /\ rwbResult[s] = "false")
    /\ pc[s] \in {"idle", "init_return", "prune_list", "prune_delete", "turn_end_return"}
         => notices[s] \subseteq {"saved"}

\* a turn_end whose prune has failed is at its normal end, the "saved"
\* notification emitted
C18_TurnEndedDespiteFailure ==
  \E s \in Sessions :
    /\ pc[s] = "turn_end_return"
    /\ faults > 0
    /\ pruneLog[s].status = "failed"
    /\ notices[s] = {"saved"}

\* C19: a step of restoreWithBackup whose git command fails (the capture or
\* write of the backup, the deletion of the previous backup, the checkout) ends
\* the call with the result false and an error notification and leaves the
\* worktree as it is; and a call that returns false has overwritten no file.
C19_FailureAbortsRestore ==
  [][\A s \in Sessions :
       /\ (pc[s] \in {"rwb_backup", "rwb_delete", "rwb_checkout"} /\ pc'[s] # pc[s]
           /\ faults' > faults) =>
             /\ pc'[s] = "rwb_return"
             /\ rwbResult'[s] = "false"
             /\ "error" \in notices'[s]
             /\ worktree' = worktree
       /\ (pc'[s] = "rwb_return" /\ rwbResult'[s] = "false") => ~overwritten'[s]]_vars

\* C20: every turn checkpoint ref and before-restore ref that a step writes has
\* the session id in its name, and no turn checkpoint ref that a step deletes
\* (only a prune pass deletes them) is of the legacy format, without session id.
C20_LegacyRefsReadOnly ==
  [][/\ \A i \in 1..Len(store') :
          (~HasRef(store, store'[i].name)
           /\ store'[i].name.kind \in {"checkpoint", "before-restore"})
            => NameHasSessionId(store'[i].name)
     /\ \A i \in 1..Len(store) :
          (~HasRef(store', store[i].name) /\ store[i].name.kind = "checkpoint")
            => NameHasSessionId(store[i].name)]_vars

\* C21: once the menu is dismissed or "Conversation only", "Keep current files"
\* or "Cancel navigation" is picked, the handler only returns: none of its steps
\* changes the ref store or the worktree, and restoreWithBackup is not entered.
C21_NoRestoreChoiceKeepsAll ==
  [][\A s \in Sessions :
       (pc'[s] # pc[s]
        /\ {menu[s].option, menu'[s].option} \cap {"dismiss", "conv", "keep", "cancel"} # {}) =>
          /\ store' = store
          /\ worktree' = worktree
          /\ pc'[s] \in {"menu_return", "idle"}]_vars

\* "Cancel navigation" has been picked in a tree menu that offered a file
\* restore and an undo of an existing before-restore backup
C21_CancelledWithBackup ==
  \E s \in Sessions :
    /\ pc[s] = "menu_return"
    /\ menu[s].handler = "tree"
    /\ menu[s].option = "cancel"
    /\ {"files", "undo"} \subseteq Options(menu[s])
    /\ BackupRefs(store) # <<>>

\* C22: what the branch handler returns to the host follows from the option
\* picked: cancel for a dismissed menu and for "Undo last file rewind" whatever
\* restoreWithBackup returned; skipConversationRestore for a code-only restore
\* that returned true; nothing for a files + conversation restore that returned
\* true and for "Conversation only".
C22_BranchDecision ==
  \A s \in Sessions :
    LET m == menu[s]
        decision == notices[s] \cap {"cancel", "skipConversationRestore"}
        restored == pc[s] = "rwb_return" /\ rwbResult[s] = "true"
    IN m.handler = "branch" =>
         /\ (pc[s] = "menu_return" /\ m.option = "dismiss") => decision = {"cancel"}
         /\ (pc[s] = "menu_return" /\ m.option = "conv") => decision = {}
         /\ (pc[s] = "rwb_return" /\ m.option = "undo") => decision = {"cancel"}
         /\ (restored /\ m.option = "code") => decision = {"skipConversationRestore"}
         /\ (restored /\ m.option = "all") => decision = {}

\* an undo picked in the branch menu has overwritten the worktree and
\* restoreWithBackup has returned true
C22_UndoDone ==
  \E s \in Sessions :
    /\ pc[s] = "rwb_return"
    /\ menu[s].handler = "branch"
    /\ menu[s].option = "undo"
    /\ rwbResult[s] = "true"
    /\ overwritten[s]

\* C23: when a file restore picked in the branch or the tree menu has not
\* restored the files, the handler returns cancel, the user has an error
\* notification and no "Files restored" notification.
C23_FailedRestoreCancels ==
  \A s \in Sessions :
    (pc[s] = "rwb_return" /\ menu[s].option \in {"all", "code", "files"} /\ ~overwritten[s]) =>
      /\ "cancel" \in notices[s]
      /\ "error" \in notices[s]
      /\ "restored" \notin notices[s]

\* C24: when a step of a prune pass deletes the turn checkpoint ref of entry E,
\* the session's map loses E exactly if it mapped E to the deleted ref; if it
\* mapped E to another ref the map is unchanged, and when no git command has
\* failed that other ref is still in the store.
C24_EvictOnlyDeleted ==
  [][\A s \in Sessions :
       (pc[s] = "prune_delete" /\ toDelete'[s] # toDelete[s]
        /\ HasRef(store, Head(toDelete[s])) /\ ~HasRef(store', Head(toDelete[s]))) =>
          LET ref == Head(toDelete[s])
              E == MatchEntry(ref)
              m == checkpoints[s]
          IN IF MapGet(m, E) = ref
             THEN checkpoints'[s] = MapDelete(m, E)
             ELSE /\ checkpoints'[s] = m
                  /\ (MapHas(m, E) /\ faults' = 0) => HasRef(store', m[E])]_vars

\* a prune pass has deleted the oldest checkpoint of an entry id that the map
\* maps to a newer checkpoint
C24_SupersededPruned ==
  \E s \in Sessions : \E r \in pruneLog[s].victims :
    /\ pc[s] = "turn_end_return"
    /\ MapHas(checkpoints[s], r.name.entry)
    /\ checkpoints[s][r.name.entry].ts > r.name.ts
    /\ HasRef(store, checkpoints[s][r.name.entry])

\* C25: the map an initialization rebuilds from the store maps every entry id
\* to the turn checkpoint of that id created last, and a turn_end for entry id E
\* leaves E mapped to the checkpoint it has just written, which is newer than
\* every checkpoint of E that the session or an ended session wrote before
\* (stated for the steps in which no git command fails).
C25_LastWriteWins ==
  [][\A s \in Sessions :
       LET m == checkpoints'[s]
           newest(st, k, writers) ==
             \A i \in 1..Len(st) :
               (MatchesTurn(st[i].name) /\ MatchEntry(st[i].name) = k /\ st[i].by \in writers)
                 => st[i].name.ts <= m[k].ts
       IN /\ (pc[s] = "idle" /\ pc'[s] = "init_return" /\ isGitRepo'[s] /\ faults' = faults) =>
               /\ \A i \in 1..Len(store) :
                    MatchesTurn(store[i].name) => MapHas(m, MatchEntry(store[i].name))
               /\ \A k \in DOMAIN m :
                    /\ HasRef(store, m[k])
                    /\ MatchEntry(m[k]) = k
                    /\ newest(store, k, Sessions \cup {"legacy"})
          /\ (pc[s] = "idle" /\ pc'[s] = "prune_list" /\ faults' = faults) =>
               \E k \in DOMAIN m :
                 /\ m[k] = TurnName(pendingCheckpoint[s].timestamp, k)
                 /\ HasRef(store', m[k])
                 /\ newest(store', k, {s, "legacy"})]_vars

\* a session whose map came from a store with 98 checkpoints of one entry id
\* has ended a turn for an entry id of which it had written a checkpoint before
C25_SecondCheckpointOfEntry ==
  \E s \in Sessions : \E k \in DOMAIN checkpoints[s] :
    /\ pc[s] = "prune_list"
    /\ checkpoints[s][k].ts = pendingCheckpoint[s].timestamp
    /\ \E i \in 1..Len(store) :
         /\ store[i].by = s
         /\ MatchesTurn(store[i].name)
         /\ MatchEntry(store[i].name) = k
         /\ store[i].name.ts < checkpoints[s][k].ts
    /\ MapGet(checkpoints[s], <<"1">>) = TurnName(MAX_CHECKPOINTS, <<"1">>)

\* C26: a call of rebuildCheckpointsMap that lists the store gives the map it
\* would give if the store held its turn checkpoints only: before-restore refs,
\* resume refs and names that do not decode are skipped one by one, the refs
\* listed after them are still read, and none of them is a key or a value.
C26_RebuildReadsTurnRefsOnly ==
  [][\A s \in Sessions :
       LET isTurn(r) == r.name.kind = "checkpoint" /\ r.name.entry # <<>>
           turnsOnly == SelectSeq(store, isTurn)
           m == checkpoints'[s]
       IN (pc'[s] \in {"rebuilt", "rebuilt_again"} /\ pc'[s] # pc[s]) =>
            /\ m = rebuildCheckpointsMap(checkpoints[s], turnsOnly, "ok")
            /\ \A k \in DOMAIN m :
                 /\ k # <<>>
                 /\ m[k].kind = "checkpoint"
                 /\ m[k].entry = k
            /\ \A i \in 1..Len(turnsOnly) : MapHas(m, turnsOnly[i].name.entry)]_vars

\* a call has returned over a store that lists a name that does not decode, then
\* a resume or before-restore ref, then a turn checkpoint, which is in the map
C26_TurnRefAfterSkipped ==
  \E s \in Sessions :
    /\ pc[s] = "rebuilt"
    /\ Len(store) = 3
    /\ store[1].name = UnparsedName(1)
    /\ store[2].name.kind \in {"checkpoint-resume", "before-restore"}
    /\ MapGet(checkpoints[s], <<"b">>) = store[3].name

\* C27: a prune pass counts and deletes turn checkpoints only: the refs it
\* selects for deletion are as many as the turn checkpoints above 100, whatever
\* the number of before-restore and resume refs, and no step of the pass removes
\* a before-restore or a resume ref from the store.
C27_PruneSparesBackupsAndResume ==
  [][\A s \in Sessions :
       LET special(n) == n.kind \in {"before-restore", "checkpoint-resume"}
           regular == SelectSeq(ForEachRef(store), LAMBDA n : ~special(n))
           excess == IF Len(regular) > MAX_CHECKPOINTS THEN Len(regular) - MAX_CHECKPOINTS ELSE 0
       IN /\ (pc[s] = "prune_list" /\ pc'[s] # pc[s] /\ faults' = faults) =>
               /\ Len(toDelete'[s]) = (IF pc'[s] = "prune_delete" THEN excess ELSE 0)
               /\ (pc'[s] = "prune_delete") = (excess > 0)
               /\ \A i \in 1..Len(toDelete'[s]) : ~special(toDelete'[s][i])
          /\ (pc[s] \in {"prune_list", "prune_delete"} /\ (pc'[s] # pc[s] \/ toDelete'[s] # toDelete[s])) =>
               \A i \in 1..Len(store) :
                 special(store[i].name) => HasRef(store', store[i].name)]_vars

\* a prune pass has deleted a ref while the store held a resume checkpoint and a
\* before-restore ref, which are still stored
C27_PrunedBesideBackupAndResume ==
  \E s \in Sessions :
    /\ pc[s] = "turn_end_return"
    /\ pruneLog[s].victims # {}
    /\ \E i, j \in 1..Len(store) :
         /\ store[i].name.kind = "before-restore"
         /\ store[j].name.kind = "checkpoint-resume"

\* C28: whenever a turn_end event has been handled, whether it wrote the ref,
\* found no user entry, failed to write the ref, failed to prune, or was ignored,
\* the pending capture of the session is empty.
C28_SlotEmptyAfterTurnEnd ==
  [][\A s \in Sessions :
       (pc[s] \in {"turn_end_return", "turn_end_ignored"} /\ pc'[s] = "idle")
         => ~pendingCheckpoint'[s].set]_vars

\* C29: a turn_start event changes neither the ref store nor the checkpoint map
\* nor the resume checkpoint of any session, whether the capture succeeds or
\* fails: until a turn_end commits it, the capture is referenced by no ref.
C29_TurnStartWritesNoRef ==
  [][(now' # now /\ pc' = pc) =>
       /\ store' = store
       /\ checkpoints' = checkpoints
       /\ resumeCheckpoint' = resumeCheckpoint
       /\ \A s \in Sessions :
            pendingCheckpoint'[s] # pendingCheckpoint[s] =>
              ~\E i \in 1..Len(store') :
                 store'[i].name.ts = pendingCheckpoint'[s].timestamp]_vars

\* a capture is pending after an edit, no turn_end has followed and no further
\* event can, and the store holds no ref made at the time of the capture
C29_CaptureLeftPending ==
  \E s \in Sessions :
    /\ pc[s] = "idle"
    /\ pendingCheckpoint[s].set
    /\ pendingCheckpoint[s].commitSha # [f \in Files |-> IF f = "f" THEN "x" ELSE Absent]
    /\ calls = MaxCalls
    /\ ~\E i \in 1..Len(store) : store[i].name.ts = pendingCheckpoint[s].timestamp

\* C30: an initialization in a repository leaves the session accepting turn
\* captures and restore requests whatever fails: its map is the rebuilt map, or
\* the empty map if the listing failed, and it holds a resume checkpoint exactly
\* if the ref of that checkpoint has been created.
C30_InitEndsReady ==
  [][\A s \in Sessions :
       (pc[s] = "idle" /\ pc'[s] = "init_return" /\ isGitRepo'[s]) =>
         /\ started'[s]
         /\ ~pendingCheckpoint'[s].set
         /\ checkpoints'[s] \in {EmptyMap, rebuildCheckpointsMap(EmptyMap, store, "ok")}
         /\ (faults' = faults => checkpoints'[s] = rebuildCheckpointsMap(EmptyMap, store, "ok"))
         /\ IF HasRef(store', ResumeName(now'))
            THEN resumeCheckpoint'[s] = ResumeName(now')
            ELSE resumeCheckpoint'[s] = NoName]_vars

\* C31: when the prune pass of a turn_end has failed, at the listing or at a
\* deletion, the turn_end is at its normal end with the "saved" notification,
\* the checkpoint it has written is stored and mapped, and the map of the
\* session is the map of the store: every entry points to a stored ref and
\* every stored turn checkpoint's entry id is mapped to its newest checkpoint.
C31_FailedPruneKeepsMap ==
  \A s \in Sessions :
    (pc[s] = "turn_end_return" /\ pruneLog[s].status = "failed") =>
      /\ notices[s] = {"saved"}
      /\ \E k \in DOMAIN checkpoints[s] :
           /\ checkpoints[s][k] = TurnName(pendingCheckpoint[s].timestamp, k)
           /\ HasRef(store, checkpoints[s][k])
      /\ \A k \in DOMAIN checkpoints[s] : HasRef(store, checkpoints[s][k])
      /\ checkpoints[s] = rebuildCheckpointsMap(EmptyMap, store, "ok")

\* C32: every ref that a step writes has a name that was not in the store
\* before the step, and the listing of the store is in the order of the
\* timestamps of the names.
C32_RefNamesUnique ==
  [][/\ \A i \in 1..Len(store') :
          (\A j \in 1..Len(store) : store[j] # store'[i]) => ~HasRef(store, store'[i].name)
     /\ \A i, j \in 1..Len(store') : i < j => store'[i].name.ts <= store'[j].name.ts]_vars

\* C33: a session that has built a restore menu, or is executing a restore, has
\* been initialized, and its last initialization went as far as the rebuild of
\* the checkpoint map.
C33_RestoreAfterRebuild ==
  \A s \in Sessions :
    pc[s] \in {"select", "menu_return", "rwb_find", "rwb_backup", "rwb_delete",
               "rwb_checkout", "rwb_return"}
      => (started[s] /\ isGitRepo[s])

\* C34: the text that turn_end builds from a timestamp and an entry id decodes
\* to the sanitized entry id under which turn_end has put it in the map, and a
\* rebuild from the store gives the map that the turn_ends have built, so that a
\* request for any entry id finds the same checkpoint before and after it.
C34_NameRoundTrip ==
  [][\A s \in Sessions :
       /\ (pc'[s] = "committed" /\ store' # store) =>
            LET checkpointId == store'[Len(store')].name
                m == MatchCheckpointId(checkpointId)
            IN /\ m.matched
               /\ GetText(checkpoints'[s], m.entry) = checkpointId
               /\ checkpointId = EncodeTurn(now', m.entry)
       /\ (pc'[s] = "rebuilt" /\ pc[s] # "rebuilt") =>
            \A entryId \in CodecIds :
              GetText(checkpoints'[s], sanitizeForRef(entryId))
                = GetText(checkpoints[s], sanitizeForRef(entryId))]_vars

\* a rebuild has returned over a store that holds the checkpoint of an entry id
\* with a digit, a hyphen and a replaced character, written after a resume ref
C34_RebuiltHyphenatedId ==
  /\ pc[TurnUser] = "rebuilt"
  /\ Len(store) = 2
  /\ store[1].name = EncodeResume(10)
  /\ GetText(checkpoints[TurnUser], <<"1", "-", "_">>) = EncodeTurn(11, <<"1", "-", "_">>)

\* C35: the checkpoint that the map gives for the entry id of a request is a
\* checkpoint that a turn_end has committed for that very entry id.
C35_ExactTargetIsOwnEntry ==
  \A s \in Sessions : \A entryId \in CodecIds :
    LET checkpointId == GetText(checkpoints[s], sanitizeForRef(entryId))
    IN checkpointId # <<>> =>
         \A i \in 1..Len(store) :
           store[i].name = checkpointId => store[i].entryId = entryId

\* C36: a turn_end whose ref write fails leaves the checkpoint map and the ref
\* store as they were, runs no prune pass and emits no "saved" notification.
C36_MapSetAfterRefWritten ==
  [][\A s \in Sessions :
       (/\ pc[s] = "idle"
        /\ pendingCheckpoint[s].set
        /\ pc'[s] \in {"prune_list", "turn_end_return"}
        /\ faults' # faults) =>
         /\ checkpoints'[s] = checkpoints[s]
         /\ store' = store
         /\ pc'[s] = "turn_end_return"
         /\ "saved" \notin notices'[s]]_vars

\* C37: the turn_start and turn_end events that the handlers ignore, those of a
\* turn other than the first among them, leave the pending capture, the
\* checkpoint map and the ref store unchanged, from the event to its return.
C37_LaterTurnsChangeNothing ==
  [][\A s \in Sessions :
       (pc'[s] # pc[s]
        /\ ({pc[s], pc'[s]} \cap {"turn_start_ignored", "turn_end_ignored"} # {})) =>
         /\ pendingCheckpoint' = pendingCheckpoint
         /\ checkpoints' = checkpoints
         /\ store' = store
         /\ worktree' = worktree]_vars

\* in a repository, with the worktree edited after the capture of the first
\* turn, a turn_start of a later turn has been ignored: the pending capture is
\* still the one of the first turn
C37_LaterTurnStartIgnored ==
  \E s \in Sessions :
    /\ pc[s] = "turn_start_ignored"
    /\ isGitRepo[s]
    /\ pendingCheckpoint[s].set
    /\ pendingCheckpoint[s].commitSha # worktree

\* C38: no step removes a resume ref from the store; an initialization in a
\* repository whose git commands all succeed adds exactly one, and leaves the
\* session with that one or, if it could not be created, with none; and the
\* fallback target of a restore menu is the resume checkpoint of the session's
\* latest initialization, never an older resume ref of the session.
C38_ResumeRefsKept ==
  [][LET resumes(st) == SelectSeq(ForEachRef(st), LAMBDA n : n.kind = "checkpoint-resume")
     IN /\ \A i \in 1..Len(resumes(store)) : HasRef(store', resumes(store)[i])
        /\ Len(resumes(store')) >= Len(resumes(store))
        /\ \A s \in Sessions :
             /\ (pc[s] = "idle" /\ pc'[s] = "init_return" /\ isGitRepo'[s]) =>
                  /\ resumeCheckpoint'[s] \in {NoName, ResumeName(now')}
                  /\ faults' = faults =>
                       /\ Len(resumes(store')) = Len(resumes(store)) + 1
                       /\ resumeCheckpoint'[s] = ResumeName(now')
                       /\ HasRef(store', ResumeName(now'))
             /\ (pc'[s] = "select" /\ pc[s] # "select" /\ menu'[s].usingResumeCheckpoint) =>
                  /\ menu'[s].checkpointId = resumeCheckpoint[s]
                  /\ \A i \in 1..Len(store) :
                       (store[i].name.kind = "checkpoint-resume" /\ store[i].by = s)
                         => store[i].name.ts <= menu'[s].checkpointId.ts]_vars

\* after two initializations of a session, a restore to the resume checkpoint of
\* the second has overwritten files and the store still holds both resume refs
C38_TwoResumeRefsAfterRestore ==
  \E s \in Sessions :
    /\ pc[s] = "rwb_return"
    /\ menu[s].usingResumeCheckpoint
    /\ overwritten[s]
    /\ Len(SelectSeq(store, LAMBDA r : r.name.kind = "checkpoint-resume" /\ r.by = s)) = 2
    /\ menu[s].checkpointId = resumeCheckpoint[s]

\* C39: when restoreWithBackup has returned false, the before-restore ref that
\* it found at its start is still in the store and is still the one an undo
\* would take as its target.
C39_FailedRestoreKeepsOldBackup ==
  \A s \in Sessions :
    (pc[s] = "rwb_return" /\ rwbResult[s] = "false" /\ existingBackup[s] # NoBackup) =>
      /\ HasRef(store, existingBackup[s].name)
      /\ findBeforeRestoreRef(store, "ok") = existingBackup[s]

====
